---- MODULE Spec2Model ----
(***************************************************************************)
(* The dataset dashboard front end: the API client of src/services/api.js  *)
(* and the view of src/components/Dashboard.js.                            *)
(*                                                                         *)
(* JavaScript strings are sequences of one-character strings, so that      *)
(* toLowerCase, endsWith and includes are computed character by character.  *)
(* Accented letters of the literals are written without their accent; no   *)
(* pattern the code searches for has one.                                  *)
(***************************************************************************)
EXTENDS Integers, Sequences, FiniteSets, TLC

----------------------------------------------------------------------------
(* String literals of the source, and of the inputs. *)

\* ".csv"
CsvSuffix ==
  <<".","c","s","v">>
\* "No se proporciono archivo"
MsgNoFile ==
  <<"N","o"," ","s","e"," ","p","r","o","p","o","r","c","i","o","n","o"," ","a","r","c","h",
     "i","v","o">>
\* "Solo se admiten archivos CSV"
MsgOnlyCsv ==
  <<"S","o","l","o"," ","s","e"," ","a","d","m","i","t","e","n"," ","a","r","c","h","i","v",
     "o","s"," ","C","S","V">>
\* "El archivo es demasiado grande. Maximo 50MB"
MsgTooLarge ==
  <<"E","l"," ","a","r","c","h","i","v","o"," ","e","s"," ","d","e","m","a","s","i","a","d",
     "o"," ","g","r","a","n","d","e","."," ","M","a","x","i","m","o"," ","5","0","M","B">>
\* "No se pudo conectar con el servidor. Verifica que la API este ejecutandose."
MsgNoConnect ==
  <<"N","o"," ","s","e"," ","p","u","d","o"," ","c","o","n","e","c","t","a","r"," ","c","o",
     "n"," ","e","l"," ","s","e","r","v","i","d","o","r","."," ","V","e","r","i","f","i","c",
     "a"," ","q","u","e"," ","l","a"," ","A","P","I"," ","e","s","t","e"," ","e","j","e","c",
     "u","t","a","n","d","o","s","e",".">>
\* "Error en la configuracion de la peticion"
MsgRequestConfig ==
  <<"E","r","r","o","r"," ","e","n"," ","l","a"," ","c","o","n","f","i","g","u","r","a","c",
     "i","o","n"," ","d","e"," ","l","a"," ","p","e","t","i","c","i","o","n">>
\* "Error al procesar los datos del analisis"
MsgFormatFailed ==
  <<"E","r","r","o","r"," ","a","l"," ","p","r","o","c","e","s","a","r"," ","l","o","s"," ",
     "d","a","t","o","s"," ","d","e","l"," ","a","n","a","l","i","s","i","s">>
\* "Error "
MsgErrorPrefix ==
  <<"E","r","r","o","r"," ">>
\* ": "
MsgColonSpace ==
  <<":"," ">>
\* "Por favor, selecciona un archivo CSV"
MsgSelectFile ==
  <<"P","o","r"," ","f","a","v","o","r",","," ","s","e","l","e","c","c","i","o","n","a"," ",
     "u","n"," ","a","r","c","h","i","v","o"," ","C","S","V">>
\* "No se puede conectar con la API. Verifica que el servidor este ejecutandose."
MsgApiOffline ==
  <<"N","o"," ","s","e"," ","p","u","e","d","e"," ","c","o","n","e","c","t","a","r"," ","c",
     "o","n"," ","l","a"," ","A","P","I","."," ","V","e","r","i","f","i","c","a"," ","q","u",
     "e"," ","e","l"," ","s","e","r","v","i","d","o","r"," ","e","s","t","e"," ","e","j","e",
     "c","u","t","a","n","d","o","s","e",".">>
\* "Error al analizar el dataset"
MsgAnalyzeDefault ==
  <<"E","r","r","o","r"," ","a","l"," ","a","n","a","l","i","z","a","r"," ","e","l"," ","d",
     "a","t","a","s","e","t">>
\* "Error interno del servidor. Revisa la consola del backend para mas detalles."
MsgHint500 ==
  <<"E","r","r","o","r"," ","i","n","t","e","r","n","o"," ","d","e","l"," ","s","e","r","v",
     "i","d","o","r","."," ","R","e","v","i","s","a"," ","l","a"," ","c","o","n","s","o","l",
     "a"," ","d","e","l"," ","b","a","c","k","e","n","d"," ","p","a","r","a"," ","m","a","s",
     " ","d","e","t","a","l","l","e","s",".">>
\* "El analisis esta tomando demasiado tiempo. Intenta con un archivo mas pequeno."
MsgHintTimeout ==
  <<"E","l"," ","a","n","a","l","i","s","i","s"," ","e","s","t","a"," ","t","o","m","a","n",
     "d","o"," ","d","e","m","a","s","i","a","d","o"," ","t","i","e","m","p","o","."," ","I",
     "n","t","e","n","t","a"," ","c","o","n"," ","u","n"," ","a","r","c","h","i","v","o"," ",
     "m","a","s"," ","p","e","q","u","e","n","o",".">>
\* "Error de codificacion. Guarda tu archivo CSV con codificacion UTF-8."
MsgHintDecode ==
  <<"E","r","r","o","r"," ","d","e"," ","c","o","d","i","f","i","c","a","c","i","o","n",".",
     " ","G","u","a","r","d","a"," ","t","u"," ","a","r","c","h","i","v","o"," ","C","S","V",
     " ","c","o","n"," ","c","o","d","i","f","i","c","a","c","i","o","n"," ","U","T","F","-",
     "8",".">>
\* "Por favor, sube un archivo CSV valido"
MsgInvalidCsvFile ==
  <<"P","o","r"," ","f","a","v","o","r",","," ","s","u","b","e"," ","u","n"," ","a","r","c",
     "h","i","v","o"," ","C","S","V"," ","v","a","l","i","d","o">>
\* "500"
Pat500 ==
  <<"5","0","0">>
\* "timeout"
PatTimeout ==
  <<"t","i","m","e","o","u","t">>
\* "decode"
PatDecode ==
  <<"d","e","c","o","d","e">>
\* "conectar"
PatConectar ==
  <<"c","o","n","e","c","t","a","r">>
\* "servidor"
PatServidor ==
  <<"s","e","r","v","i","d","o","r">>
\* "Invalid CSV"
TxtInvalidCsv ==
  <<"I","n","v","a","l","i","d"," ","C","S","V">>
\* "Fallo del servidor"
TxtServidorCaido ==
  <<"F","a","l","l","o"," ","d","e","l"," ","s","e","r","v","i","d","o","r">>
\* "OK"
TxtOK ==
  <<"O","K">>
\* "Bad Request"
TxtBadRequest ==
  <<"B","a","d"," ","R","e","q","u","e","s","t">>
\* "Internal Server Error"
TxtInternalServerError ==
  <<"I","n","t","e","r","n","a","l"," ","S","e","r","v","e","r"," ","E","r","r","o","r">>
\* "Cannot read properties of null (reading 'error')"
TxtTypeError ==
  <<"C","a","n","n","o","t"," ","r","e","a","d"," ","p","r","o","p","e","r","t","i","e","s",
     " ","o","f"," ","n","u","l","l"," ","(","r","e","a","d","i","n","g"," ","'","e","r","r",
     "o","r","'",")">>
\* "a.csv"
NameLower ==
  <<"a",".","c","s","v">>
\* "B.CSV"
NameUpper ==
  <<"B",".","C","S","V">>
\* "c.Csv"
NameMixed ==
  <<"c",".","C","s","v">>
\* "d.txt"
NameTxt ==
  <<"d",".","t","x","t">>
\* "csv"
NameNoDot ==
  <<"c","s","v">>
\* "completed"
TxtComplete ==
  <<"c","o","m","p","l","e","t","e","d">>
\* "unknown"
TxtUnknown ==
  <<"u","n","k","n","o","w","n">>

----------------------------------------------------------------------------
(* String.prototype operations the code relies on. *)

Uppers ==
  <<"A","B","C","D","E","F","G","H","I","J","K","L","M","N","O","P","Q","R","S","T","U","V",
    "W","X","Y","Z">>

Lowers ==
  <<"a","b","c","d","e","f","g","h","i","j","k","l","m","n","o","p","q","r","s","t","u","v",
    "w","x","y","z">>

Digits ==
  <<"0","1","2","3","4","5","6","7","8","9">>

toLowerCaseChar(c) ==
  IF \E i \in DOMAIN Uppers : Uppers[i] = c
    THEN Lowers[CHOOSE i \in DOMAIN Uppers : Uppers[i] = c]
    ELSE c

toLowerCase(s) ==
  [i \in 1..Len(s) |-> toLowerCaseChar(s[i])]

endsWith(s, suffix) ==
  /\ Len(s) >= Len(suffix)
  /\ SubSeq(s, Len(s) - Len(suffix) + 1, Len(s)) = suffix

includes(s, pattern) ==
  \E i \in 0..(Len(s) - Len(pattern)) : SubSeq(s, i + 1, i + Len(pattern)) = pattern

RECURSIVE numberToString(_)
numberToString(n) ==
  IF n < 10
    THEN <<Digits[n + 1]>>
    ELSE numberToString(n \div 10) \o <<Digits[(n % 10) + 1]>>

----------------------------------------------------------------------------
(* JavaScript values: a JSON payload, a File, a normalised report.  An     *)
(* object's properties are a function from property names to values.       *)

Undefined ==
  [t |-> "undefined"]

Null ==
  [t |-> "null"]

Num(n) ==
  [t |-> "number", n |-> n]

Str(s) ==
  [t |-> "string", s |-> s]

Arr(items) ==
  [t |-> "array", items |-> items]

Obj(props) ==
  [t |-> "object", props |-> props]

EmptyObj ==
  Obj(<<>>)

EmptyArr ==
  Arr(<<>>)

\* new Error(message)
Error(message) ==
  [t |-> "Error", message |-> message]

\* The value of `a` in a boolean context.
Truthy(a) ==
  CASE a.t \in {"undefined", "null"} -> FALSE
    [] a.t = "number" -> a.n # 0
    [] a.t = "string" -> a.s # <<>>
    [] a.t = "boolean" -> a.b
    [] OTHER -> TRUE

\* a || b
Or(a, b) ==
  IF Truthy(a) THEN a ELSE b

\* Reading a property of undefined or null throws a TypeError.
Throws(a) ==
  a.t \in {"undefined", "null"}

\* a.key, for a value that is neither undefined nor null: the property of an
\* object that has it, undefined otherwise (no primitive or array has one of
\* the names the code reads).
Get(a, key) ==
  IF a.t = "object" /\ key \in DOMAIN a.props THEN a.props[key] ELSE Undefined

\* A settled promise.
Fulfilled(value) ==
  [settled |-> "fulfilled", value |-> value]

Rejected(reason) ==
  [settled |-> "rejected", reason |-> reason]

Bool(b) ==
  [t |-> "boolean", b |-> b]

\* A synchronous call that returned, or threw.
Returned(value) ==
  [threw |-> FALSE, value |-> value]

Thrown(err) ==
  [threw |-> TRUE, error |-> err]

\* A File of the browser: its name and its size in bytes.
File(name, size) ==
  [t |-> "File", name |-> name, size |-> size]

----------------------------------------------------------------------------
(* Inputs: the files a user can pick, what the network can answer, the     *)
(* payloads the backend can send.                                          *)

\* Mutant: the limit counted in decimal megabytes.
MaxFileSize_decimal ==
  50 * 1000 * 1000

MaxFileSize ==
  50 * 1024 * 1024

\* 50 MB in bytes, as a file size of the inputs.
FiftyMegabytes ==
  52428800

\* The files a user picks: each accepted spelling of the suffix, both sides of
\* the size limit, and names that do not end in ".csv".
Files ==
  {File(NameLower, 2 * 1024 * 1024), File(NameUpper, FiftyMegabytes),
   File(NameMixed, 2 * 1024 * 1024), File(NameLower, FiftyMegabytes + 1),
   File(NameUpper, FiftyMegabytes + 1), File(NameTxt, 2 * 1024 * 1024),
   File(NameNoDot, FiftyMegabytes)}

\* A report with every field and sub-field of lines 143-151.
FullReport ==
  Obj([basic_info |-> Obj([total_rows |-> Num(10), total_columns |-> Num(2)]),
       missing_data |-> Obj([columns_with_missing |-> EmptyArr,
                             total_missing_percentage |-> Num(5)]),
       duplicates |-> Obj([total_duplicates |-> Num(1), percentage |-> Num(10),
                           columns_contributing |-> EmptyArr]),
       data_quality |-> Obj([completeness |-> Num(95), consistency |-> Num(90),
                             validity |-> Num(80), uniqueness |-> Num(70)]),
       outliers |-> Obj([columns_with_outliers |-> EmptyArr]),
       correlation_matrix |-> Arr(<<Num(1)>>),
       column_statistics |-> Obj([age |-> Obj([mean |-> Num(30)])]),
       recommendations |-> Obj([critical |-> EmptyArr, moderate |-> EmptyArr,
                                optional |-> EmptyArr]),
       analysis_status |-> Str(TxtComplete)])

\* The same report under an `analysis` key.
NestedReport ==
  Obj([analysis |-> FullReport, id |-> Num(7)])

\* Sections present, each lacking some of its sub-fields.
PartialReport ==
  Obj([basic_info |-> Obj([total_rows |-> Num(10)]),
       missing_data |-> Obj([total_missing_percentage |-> Num(5)]),
       duplicates |-> Obj([total_duplicates |-> Num(1)]),
       data_quality |-> Obj([consistency |-> Num(90)]),
       recommendations |-> Obj([moderate |-> EmptyArr]),
       analysis_status |-> Str(TxtComplete)])

\* Fields present with a falsy value.
FalsyReport ==
  Obj([basic_info |-> Null, correlation_matrix |-> Num(0), analysis_status |-> Str(<<>>),
       outliers |-> Bool(FALSE)])

\* An `analysis` key that holds no report.
OddNesting ==
  {Obj([analysis |-> Str(TxtComplete)]), Obj([analysis |-> Null, basic_info |-> EmptyObj]),
   Obj([analysis |-> EmptyArr])}

JsonObjects ==
  {EmptyObj, FullReport, NestedReport, PartialReport, FalsyReport} \cup OddNesting

\* What formatAnalysisData can be handed: a JSON object or any other value.
RawValues ==
  JsonObjects \cup {Null, Undefined, Num(0), Str(<<>>), Str(TxtComplete), EmptyArr}

\* The status line of a response.
statusText(status) ==
  CASE status = 200 -> TxtOK
    [] status = 400 -> TxtBadRequest
    [] status = 500 -> TxtInternalServerError
    [] OTHER -> <<>>

\* What a request can end in: a response, no response (unreachable host, or
\* the 30 s timeout of line 32), or an error raised while setting it up.
Response(status, data) ==
  [kind |-> "response", status |-> status, statusText |-> statusText(status), data |-> data]

NoResponse(code) ==
  [kind |-> "noResponse", code |-> code]

SetupError ==
  [kind |-> "setupError"]

NoResponses ==
  {NoResponse("ERR_NETWORK"), NoResponse("ECONNABORTED")}

ErrorBodies ==
  {Obj([error |-> Str(TxtInvalidCsv)]), Obj([error |-> Str(TxtServidorCaido)]),
   Obj([error |-> Str(<<>>)]), Obj([detail |-> Str(TxtInvalidCsv)]), Str(<<>>), Null}

UploadBodies ==
  {FullReport, NestedReport, PartialReport, EmptyObj, Null}

UploadOutcomes ==
  {Response(200, d) : d \in UploadBodies}
    \cup {Response(400, d) : d \in ErrorBodies}
    \cup {Response(201, FullReport), Response(304, Str(<<>>)),
          Response(500, Obj([detail |-> Str(TxtInvalidCsv)])),
          Response(500, Obj([error |-> Str(TxtInvalidCsv)]))}
    \cup NoResponses \cup {SetupError}

HealthOutcomes ==
  {Response(200, Obj([status |-> Str(TxtOK)])), Response(204, Str(<<>>)),
   Response(304, Str(<<>>)), Response(404, Obj([detail |-> Str(TxtBadRequest)])),
   Response(500, Obj([error |-> Str(TxtServidorCaido)]))}
    \cup NoResponses \cup {SetupError}

----------------------------------------------------------------------------
(* The API client, src/services/api.js. *)

\* axios rejects a response whose status is outside 2xx.
validateStatus(status) ==
  status >= 200 /\ status < 300

\* String(value) for the values an `error` field holds here.
toString(value) ==
  CASE value.t = "string" -> value.s
    [] value.t = "number" -> numberToString(value.n)

\* The response interceptor: the promise of apiClient.get / apiClient.post
\* for a request that ended in `outcome`.
responseInterceptor(outcome) ==
  CASE outcome.kind = "response" /\ validateStatus(outcome.status) ->
         Fulfilled(outcome)
    [] outcome.kind = "response" /\ ~validateStatus(outcome.status) ->
         IF Throws(outcome.data)
           THEN Rejected([t |-> "TypeError", message |-> TxtTypeError])
           ELSE Rejected(Error(
                  IF Truthy(Get(outcome.data, "error"))
                    THEN toString(Get(outcome.data, "error"))
                    ELSE MsgErrorPrefix \o numberToString(outcome.status)
                           \o MsgColonSpace \o outcome.statusText))
    [] outcome.kind = "noResponse" ->
         Rejected(Error(MsgNoConnect))
    [] OTHER ->
         Rejected(Error(MsgRequestConfig))

PostUpload(file, name) ==
  [method |-> "POST", url |-> "/upload/", file |-> file, name |-> name]

GetHealth ==
  [method |-> "GET", url |-> "/health/"]

\* Mutant: the suffix compared without toLowerCase.
uploadAndAnalyzeDataset_caseSensitive(file, name) ==
  IF ~Truthy(file)
    THEN [dispatch |-> FALSE, result |-> Rejected(Error(MsgNoFile))]
  ELSE IF ~endsWith(file.name, CsvSuffix)
    THEN [dispatch |-> FALSE, result |-> Rejected(Error(MsgOnlyCsv))]
  ELSE IF file.size > MaxFileSize
    THEN [dispatch |-> FALSE, result |-> Rejected(Error(MsgTooLarge))]
  ELSE [dispatch |-> TRUE,
        request |-> PostUpload(file, IF Truthy(name) THEN name.s ELSE file.name)]

\* uploadAndAnalyzeDataset up to its await: the validation, and the request
\* it dispatches when the file passes.
uploadAndAnalyzeDataset(file, name) ==
  IF ~Truthy(file)
    THEN [dispatch |-> FALSE, result |-> Rejected(Error(MsgNoFile))]
  ELSE IF ~endsWith(toLowerCase(file.name), CsvSuffix)
    THEN [dispatch |-> FALSE, result |-> Rejected(Error(MsgOnlyCsv))]
  ELSE IF file.size > MaxFileSize
    THEN [dispatch |-> FALSE, result |-> Rejected(Error(MsgTooLarge))]
  ELSE [dispatch |-> TRUE,
        request |-> PostUpload(file, IF Truthy(name) THEN name.s ELSE file.name)]

\* uploadAndAnalyzeDataset after its await.
uploadSettled(outcome) ==
  LET response == responseInterceptor(outcome)
  IN  IF response.settled = "fulfilled"
        THEN Fulfilled(response.value.data)
        ELSE response

checkAPIHealth(outcome) ==
  LET response == responseInterceptor(outcome)
  IN  IF response.settled = "fulfilled"
        THEN Fulfilled(response.value.data)
        ELSE response

\* Mutant: the failure of the health check passed on to the caller.
testConnection_rethrows(outcome) ==
  IF checkAPIHealth(outcome).settled = "fulfilled"
    THEN Fulfilled(Bool(TRUE))
    ELSE checkAPIHealth(outcome)

testConnection(outcome) ==
  IF checkAPIHealth(outcome).settled = "fulfilled"
    THEN Fulfilled(Bool(TRUE))
    ELSE Fulfilled(Bool(FALSE))

\* The object literal of lines 142-152, `analysis` being the report.
formatFields(analysis) ==
  IF Throws(analysis)
    THEN Thrown(Error(MsgFormatFailed))
  ELSE Returned(Obj(
    [basic_info |-> Or(Get(analysis, "basic_info"), EmptyObj),
     missing_data |->
       Or(Get(analysis, "missing_data"),
          Obj([columns_with_missing |-> EmptyArr, total_missing_percentage |-> Num(0)])),
     duplicates |->
       Or(Get(analysis, "duplicates"),
          Obj([total_duplicates |-> Num(0), percentage |-> Num(0),
               columns_contributing |-> EmptyArr])),
     data_quality |->
       Or(Get(analysis, "data_quality"),
          Obj([completeness |-> Num(0), consistency |-> Num(0), validity |-> Num(0),
               uniqueness |-> Num(0)])),
     outliers |-> Or(Get(analysis, "outliers"), Obj([columns_with_outliers |-> EmptyArr])),
     correlation_matrix |-> Or(Get(analysis, "correlation_matrix"), EmptyArr),
     column_statistics |-> Or(Get(analysis, "column_statistics"), EmptyObj),
     recommendations |->
       Or(Get(analysis, "recommendations"),
          Obj([critical |-> EmptyArr, moderate |-> EmptyArr, optional |-> EmptyArr])),
     analysis_status |-> Or(Get(analysis, "analysis_status"), Str(TxtUnknown))]))

\* Mutant: the report read from the `analysis` key alone.
formatAnalysisData_nestedOnly(rawAnalysis) ==
  IF Throws(rawAnalysis)
    THEN Thrown(Error(MsgFormatFailed))
    ELSE formatFields(Get(rawAnalysis, "analysis"))

\* A TypeError thrown inside the try block is caught and replaced.
formatAnalysisData(rawAnalysis) ==
  IF Throws(rawAnalysis)
    THEN Thrown(Error(MsgFormatFailed))
    ELSE formatFields(Or(Get(rawAnalysis, "analysis"), rawAnalysis))

----------------------------------------------------------------------------
(* The view, src/components/Dashboard.js, and the requests in flight. *)

VARIABLES
  datasetInfo,   \* the stored report, or null
  loading,       \* the loading flag
  error,         \* the displayed error message, or null
  file,          \* the selected file, or null
  apiStatus,     \* "unknown", "online" or "offline"
  inflight,      \* the calls awaiting their HTTP request, oldest first
  lastEvent      \* the step just taken, with its inputs and its result

view == <<datasetInfo, loading, error, file, apiStatus>>

vars == <<datasetInfo, loading, error, file, apiStatus, inflight, lastEvent>>

\* At most this many calls of the view await a request at once, and this
\* many direct calls of a client function.
MaxInFlight ==
  2

MaxClientCalls ==
  1

ClientCalls ==
  Cardinality({i \in DOMAIN inflight : inflight[i].caller = "client"})

ViewCalls ==
  Cardinality({i \in DOMAIN inflight : inflight[i].caller # "client"})

\* A call awaiting its request.  `fn` is the client function, `caller` the
\* code that awaits it ("client" for a direct call of the exported function),
\* `userActed` records whether the user has acted since the call started.
Call(fn, caller, request) ==
  [fn |-> fn, caller |-> caller, request |-> request, userActed |-> FALSE]

MarkUserAction(calls) ==
  [i \in 1..Len(calls) |-> [calls[i] EXCEPT !.userActed = TRUE]]

Requests(calls) ==
  [i \in 1..Len(calls) |-> calls[i].request]

Remove(calls, i) ==
  SubSeq(calls, 1, i - 1) \o SubSeq(calls, i + 1, Len(calls))

\* After mount: the state of the useState calls, and the probe the effect of
\* lines 17-19 has started.
Init ==
  /\ datasetInfo = Null
  /\ loading = FALSE
  /\ error = Null
  /\ file = Null
  /\ apiStatus = "unknown"
  /\ inflight = <<Call("testConnection", "checkApiConnection", GetHealth)>>
  /\ lastEvent = [op |-> "mount"]

\* The message analyzeDataset displays for a caught error (lines 66-75).
errorMessage(err) ==
  LET message == IF err.message # <<>> THEN err.message ELSE MsgAnalyzeDefault
  IN  IF includes(message, Pat500) THEN MsgHint500
      ELSE IF includes(message, PatTimeout) THEN MsgHintTimeout
      ELSE IF includes(message, PatDecode) THEN MsgHintDecode
      ELSE message

\* Mutant: only a timeout taken for a connection error.
isConnectionError_timeoutOnly(err) ==
  includes(err.message, PatTimeout)

\* Whether analyzeDataset takes a caught error for a connection error (line 80).
isConnectionError(err) ==
  includes(err.message, PatConectar) \/ includes(err.message, PatServidor)

\* Mutant: the loading flag cleared on success only, without the finally block.
AnalyzeCatch_noFinally(err) ==
  /\ error' = Str(errorMessage(err))
  /\ apiStatus' = IF isConnectionError(err) THEN "offline" ELSE apiStatus
  /\ UNCHANGED loading

\* The catch and finally blocks of analyzeDataset.
AnalyzeCatch(err) ==
  /\ error' = Str(errorMessage(err))
  /\ apiStatus' = IF isConnectionError(err) THEN "offline" ELSE apiStatus
  /\ loading' = FALSE

\* Mutant: the previous results cleared before the guards.
AnalyzeRefused_clears(message) ==
  /\ error' = Str(message)
  /\ datasetInfo' = Null
  /\ UNCHANGED <<loading, file, apiStatus>>

\* The early returns of analyzeDataset (lines 31-39): a message, nothing else.
AnalyzeRefused(message) ==
  /\ error' = Str(message)
  /\ UNCHANGED <<datasetInfo, loading, file, apiStatus>>

\* analyzeDataset up to its await.
AnalyzeDataset ==
  IF ~Truthy(file) THEN
    /\ AnalyzeRefused(MsgSelectFile)
    /\ inflight' = MarkUserAction(inflight)
    /\ lastEvent' = [op |-> "analyzeDataset", branch |-> "noFile"]
  ELSE IF apiStatus = "offline" THEN
    /\ AnalyzeRefused(MsgApiOffline)
    /\ inflight' = MarkUserAction(inflight)
    /\ lastEvent' = [op |-> "analyzeDataset", branch |-> "offline"]
  ELSE
    LET upload == uploadAndAnalyzeDataset(file, Str(file.name))
    IN  /\ datasetInfo' = Null
        /\ UNCHANGED file
        /\ IF upload.dispatch
             THEN /\ loading' = TRUE
                  /\ error' = Null
                  /\ inflight' = Append(MarkUserAction(inflight),
                                        Call("uploadAndAnalyzeDataset", "analyzeDataset",
                                             upload.request))
                  /\ lastEvent' = [op |-> "analyzeDataset", branch |-> "sending"]
                  /\ UNCHANGED apiStatus
             ELSE /\ AnalyzeCatch(upload.result.reason)
                  /\ inflight' = MarkUserAction(inflight)
                  /\ lastEvent' = [op |-> "analyzeDataset", branch |-> "invalid",
                                   result |-> upload.result]

\* Mutant: a success that leaves the connectivity state as it was.
AnalyzeSettled_noOnline(outcome) ==
  LET result == uploadSettled(outcome)
      formatted == formatAnalysisData(result.value)
  IN  IF result.settled = "fulfilled" /\ ~formatted.threw
        THEN /\ datasetInfo' = formatted.value
             /\ loading' = FALSE
             /\ UNCHANGED <<error, file, apiStatus>>
        ELSE /\ AnalyzeCatch(IF result.settled = "fulfilled"
                               THEN formatted.error ELSE result.reason)
             /\ UNCHANGED <<datasetInfo, file>>

\* analyzeDataset after its await, the upload having ended in `outcome`.
AnalyzeSettled(outcome) ==
  LET result == uploadSettled(outcome)
      formatted == formatAnalysisData(result.value)
  IN  IF result.settled = "fulfilled" /\ ~formatted.threw
        THEN /\ datasetInfo' = formatted.value
             /\ apiStatus' = "online"
             /\ loading' = FALSE
             /\ UNCHANGED <<error, file>>
        ELSE /\ AnalyzeCatch(IF result.settled = "fulfilled"
                               THEN formatted.error ELSE result.reason)
             /\ UNCHANGED <<datasetInfo, file>>

\* Mutant: the file recorded before it is validated.
handleFileUpload_recordsFirst(uploadedFile) ==
  /\ inflight' = MarkUserAction(inflight)
  /\ lastEvent' = [op |-> "handleFileUpload", file |-> uploadedFile]
  /\ IF ~Truthy(uploadedFile) THEN
       UNCHANGED view
     ELSE IF ~endsWith(toLowerCase(uploadedFile.name), CsvSuffix) THEN
       /\ error' = Str(MsgInvalidCsvFile)
       /\ file' = uploadedFile
       /\ UNCHANGED <<datasetInfo, loading, apiStatus>>
     ELSE IF uploadedFile.size > MaxFileSize THEN
       /\ error' = Str(MsgTooLarge)
       /\ file' = uploadedFile
       /\ UNCHANGED <<datasetInfo, loading, apiStatus>>
     ELSE
       /\ file' = uploadedFile
       /\ datasetInfo' = Null
       /\ error' = Null
       /\ UNCHANGED <<loading, apiStatus>>

handleFileUpload(uploadedFile) ==
  /\ inflight' = MarkUserAction(inflight)
  /\ lastEvent' = [op |-> "handleFileUpload", file |-> uploadedFile]
  /\ IF ~Truthy(uploadedFile) THEN
       UNCHANGED view
     ELSE IF ~endsWith(toLowerCase(uploadedFile.name), CsvSuffix) THEN
       /\ error' = Str(MsgInvalidCsvFile)
       /\ UNCHANGED <<datasetInfo, loading, file, apiStatus>>
     ELSE IF uploadedFile.size > MaxFileSize THEN
       /\ error' = Str(MsgTooLarge)
       /\ UNCHANGED <<datasetInfo, loading, file, apiStatus>>
     ELSE
       /\ file' = uploadedFile
       /\ datasetInfo' = Null
       /\ error' = Null
       /\ UNCHANGED <<loading, apiStatus>>

\* Mutant: a failed probe puts the state back to "unknown".
ProbeSettled_unknownOnFailure(outcome) ==
  LET isOnline == testConnection(outcome)
  IN  apiStatus' = IF isOnline.settled = "fulfilled" /\ Truthy(isOnline.value)
                     THEN "online"
                     ELSE "unknown"

\* checkApiConnection after its await.
ProbeSettled(outcome) ==
  LET isOnline == testConnection(outcome)
  IN  apiStatus' = IF isOnline.settled = "fulfilled" /\ Truthy(isOnline.value)
                     THEN "online"
                     ELSE "offline"

\* retryConnection up to its await.
RetryConnection ==
  /\ loading' = TRUE
  /\ inflight' = Append(MarkUserAction(inflight),
                        Call("testConnection", "retryConnection", GetHealth))
  /\ lastEvent' = [op |-> "retryConnection"]
  /\ UNCHANGED <<datasetInfo, error, file, apiStatus>>

\* The controls the view renders: the file input always, the analyze button
\* once a file is selected (lines 191, 199-202), the retry button while the
\* API is offline (lines 162-166); a disabled button fires no click.
\* Mutant: the analyze button left enabled while loading.
AnalyzeButtonEnabled_whileLoading ==
  Truthy(file) /\ apiStatus # "offline"

AnalyzeButtonEnabled ==
  Truthy(file) /\ ~(loading \/ apiStatus = "offline")

RetryButtonEnabled ==
  apiStatus = "offline" /\ ~loading

SelectFile ==
  \E uploadedFile \in Files \cup {Undefined} : handleFileUpload(uploadedFile)

ClickAnalyze ==
  /\ AnalyzeButtonEnabled
  /\ ViewCalls < MaxInFlight
  /\ AnalyzeDataset

ClickRetry ==
  /\ RetryButtonEnabled
  /\ ViewCalls < MaxInFlight
  /\ RetryConnection

\* The handlers invoked whatever the controls show.
InvokeAnalyze ==
  /\ ViewCalls < MaxInFlight
  /\ AnalyzeDataset

InvokeRetry ==
  /\ ViewCalls < MaxInFlight
  /\ RetryConnection

\* A direct call of an exported client function; the upload with `name` left
\* to its default, null.
ClientUpload ==
  \E f \in Files \cup {Null}, name \in {Null} :
    LET upload == uploadAndAnalyzeDataset(f, name)
    IN  /\ ClientCalls < MaxClientCalls
        /\ inflight' = IF upload.dispatch
                         THEN Append(inflight, Call("uploadAndAnalyzeDataset", "client",
                                                    upload.request))
                         ELSE inflight
        /\ lastEvent' = [op |-> "uploadAndAnalyzeDataset", file |-> f, name |-> name,
                         result |-> IF upload.dispatch THEN Null ELSE upload.result]
        /\ UNCHANGED view

ClientTestConnection ==
  /\ ClientCalls < MaxClientCalls
  /\ inflight' = Append(inflight, Call("testConnection", "client", GetHealth))
  /\ lastEvent' = [op |-> "testConnection"]
  /\ UNCHANGED view

ClientFormat ==
  \E rawAnalysis \in RawValues :
    /\ lastEvent' = [op |-> "formatAnalysisData", rawAnalysis |-> rawAnalysis,
                     result |-> formatAnalysisData(rawAnalysis)]
    /\ UNCHANGED <<view, inflight>>

\* The request of the i-th call in flight ends, and the code awaiting it runs
\* to its end.
Settle ==
  \E i \in DOMAIN inflight :
    LET call == inflight[i]
    IN  \E outcome \in IF call.fn = "testConnection" THEN HealthOutcomes
                                                     ELSE UploadOutcomes :
          /\ inflight' = Remove(inflight, i)
          /\ lastEvent' = [op |-> "settled", call |-> call, outcome |-> outcome,
                           result |-> IF call.fn = "testConnection"
                                        THEN testConnection(outcome)
                                        ELSE uploadSettled(outcome)]
          /\ CASE call.caller = "analyzeDataset" ->
                    AnalyzeSettled(outcome)
               [] call.caller = "checkApiConnection" ->
                    ProbeSettled(outcome) /\ UNCHANGED <<datasetInfo, loading, error, file>>
               [] call.caller = "retryConnection" ->
                    /\ ProbeSettled(outcome)
                    /\ loading' = FALSE
                    /\ UNCHANGED <<datasetInfo, error, file>>
               [] OTHER ->
                    UNCHANGED view

\* The view driven through its controls.
Next ==
  \/ SelectFile
  \/ ClickAnalyze
  \/ ClickRetry
  \/ Settle

Spec == Init /\ [][Next]_vars

\* The same, every request in flight ending sooner or later in a response, in
\* none, or in an error.
SpecLive == Init /\ [][Next]_vars /\ WF_vars(Settle)

\* The client functions called directly, next to a view whose user only
\* selects files.
NextClient ==
  \/ ClientUpload
  \/ ClientTestConnection
  \/ ClientFormat
  \/ SelectFile
  \/ Settle

SpecClient == Init /\ [][NextClient]_vars

\* The handlers of the view invoked in any state.
NextHandlers ==
  \/ SelectFile
  \/ InvokeAnalyze
  \/ InvokeRetry
  \/ Settle

SpecHandlers == Init /\ [][NextHandlers]_vars

----------------------------------------------------------------------------
(* Properties. *)

\* The names of the inputs by their suffix, read off the names themselves.
CsvNames ==
  {NameLower, NameUpper, NameMixed}

NonCsvNames ==
  {NameTxt, NameNoDot}

\* The step just taken is a direct call of uploadAndAnalyzeDataset.
IsClientUpload(event) ==
  event.op = "uploadAndAnalyzeDataset" /\ Truthy(event.file)

\* The step just taken settled a call of `fn`.
IsSettled(event, fn) ==
  event.op = "settled" /\ event.call.fn = fn

IsValidationError(result) ==
  /\ result # Null
  /\ result.settled = "rejected"
  /\ result.reason.message \in {MsgNoFile, MsgOnlyCsv, MsgTooLarge}

\* C1: a call of uploadAndAnalyzeDataset with a file whose name does not end
\* in ".csv", whatever the case of its letters, is rejected with the
\* validation error and leaves the requests in flight as they were; a name
\* ending in ".CSV" or ".Csv" is not rejected for its suffix.
C1_NonCsvRejectedBeforeAnyRequest ==
  [][IsClientUpload(lastEvent') =>
       /\ lastEvent'.file.name \in NonCsvNames =>
            /\ lastEvent'.result = Rejected(Error(MsgOnlyCsv))
            /\ inflight' = inflight
       /\ lastEvent'.file.name \in {NameUpper, NameMixed} =>
            \/ lastEvent'.result = Null
            \/ lastEvent'.result.reason.message # MsgOnlyCsv]_vars

C1_Witness ==
  /\ IsClientUpload(lastEvent)
  /\ lastEvent.file.name = NameTxt
  /\ IsValidationError(lastEvent.result)
  /\ ClientCalls = 0

\* C2: a .csv file of exactly 52,428,800 bytes passes the validation of
\* uploadAndAnalyzeDataset, which dispatches the POST to /upload/; one of
\* 52,428,801 bytes is rejected with the validation error and nothing is
\* dispatched.  The file selection handler of the view accepts the first and
\* rejects the second.
C2_SizeLimitIsInclusive ==
  [][/\ (IsClientUpload(lastEvent') /\ lastEvent'.file.name \in CsvNames) =>
          /\ lastEvent'.file.size = FiftyMegabytes =>
               /\ lastEvent'.result = Null
               /\ Len(inflight') = Len(inflight) + 1
               /\ inflight'[Len(inflight')].request.method = "POST"
               /\ inflight'[Len(inflight')].request.url = "/upload/"
               /\ inflight'[Len(inflight')].request.file = lastEvent'.file
          /\ lastEvent'.file.size = FiftyMegabytes + 1 =>
               /\ lastEvent'.result = Rejected(Error(MsgTooLarge))
               /\ inflight' = inflight
     /\ (/\ lastEvent'.op = "handleFileUpload"
         /\ Truthy(lastEvent'.file)
         /\ lastEvent'.file.name \in CsvNames) =>
          /\ lastEvent'.file.size = FiftyMegabytes =>
               file' = lastEvent'.file /\ error' = Null
          /\ lastEvent'.file.size = FiftyMegabytes + 1 =>
               file' = file /\ error' = Str(MsgTooLarge)]_vars

C2_Witness ==
  /\ IsClientUpload(lastEvent)
  /\ lastEvent.file = File(NameUpper, FiftyMegabytes)
  /\ \E i \in DOMAIN inflight :
       /\ inflight[i].caller = "client"
       /\ inflight[i].request = PostUpload(lastEvent.file, NameUpper)

\* C3: testConnection always completes with a boolean, true exactly when the
\* health endpoint answered with a 2xx status.
C3_TestConnectionIsTotal ==
  IsSettled(lastEvent, "testConnection") =>
    /\ lastEvent.result.settled = "fulfilled"
    /\ lastEvent.result.value \in {Bool(TRUE), Bool(FALSE)}
    /\ lastEvent.result.value = Bool(TRUE) <=>
         /\ lastEvent.outcome.kind = "response"
         /\ lastEvent.outcome.status \in 200..299

C3_Witness ==
  /\ IsSettled(lastEvent, "testConnection")
  /\ lastEvent.call.caller = "client"
  /\ lastEvent.outcome.kind = "noResponse"
  /\ lastEvent.result = Fulfilled(Bool(FALSE))

\* An error carries the status code when it has it as a property or spells
\* it in its message.
IncludesStatus(err, status) ==
  \/ "status" \in DOMAIN err /\ err.status = status
  \/ includes(err.message, numberToString(status))

\* C4: when the server answers the upload with a non-2xx status and a body
\* whose `error` is a string, uploadAndAnalyzeDataset fails with an error
\* whose message is that string and which includes the status code.
C4_ServerErrorHasMessageAndStatus ==
  (/\ IsSettled(lastEvent, "uploadAndAnalyzeDataset")
   /\ lastEvent.outcome.kind = "response"
   /\ lastEvent.outcome.status \notin 200..299
   /\ lastEvent.outcome.data.t = "object"
   /\ "error" \in DOMAIN lastEvent.outcome.data.props
   /\ lastEvent.outcome.data.props.error.t = "string"
   /\ lastEvent.outcome.data.props.error.s # <<>>) =>
    /\ lastEvent.result.settled = "rejected"
    /\ lastEvent.result.reason.message = lastEvent.outcome.data.props.error.s
    /\ IncludesStatus(lastEvent.result.reason, lastEvent.outcome.status)

\* The nine fields of a report, and the sub-fields of its sections.
ReportFields ==
  {"basic_info", "missing_data", "duplicates", "data_quality", "outliers",
   "correlation_matrix", "column_statistics", "recommendations", "analysis_status"}

SubFields(field) ==
  CASE field = "missing_data" -> {"columns_with_missing", "total_missing_percentage"}
    [] field = "duplicates" -> {"total_duplicates", "percentage", "columns_contributing"}
    [] field = "data_quality" -> {"completeness", "consistency", "validity", "uniqueness"}
    [] field = "outliers" -> {"columns_with_outliers"}
    [] field = "recommendations" -> {"critical", "moderate", "optional"}
    [] OTHER -> {}

Has(a, key) ==
  a.t = "object" /\ key \in DOMAIN a.props /\ a.props[key] # Undefined

HasAllFields(report) ==
  \A field \in ReportFields : Has(report, field)

HasAllSubFields(report) ==
  \A field \in ReportFields : \A sub \in SubFields(field) :
    Has(report, field) /\ Has(report.props[field], sub)

IsFormat(event) ==
  event.op = "formatAnalysisData"

\* C5: for every JSON object, with the report at top level or under an
\* `analysis` key, formatAnalysisData does not throw and returns an object
\* with all nine fields; it throws only for an input that is not an object.
C5_FormatIsTotalOnObjects ==
  IsFormat(lastEvent) =>
    /\ lastEvent.rawAnalysis.t = "object" =>
         /\ ~lastEvent.result.threw
         /\ HasAllFields(lastEvent.result.value)
    /\ lastEvent.result.threw => lastEvent.rawAnalysis.t # "object"

C5_Witness ==
  /\ IsFormat(lastEvent)
  /\ lastEvent.rawAnalysis = NestedReport
  /\ ~lastEvent.result.threw
  /\ HasAllFields(lastEvent.result.value)

\* C6: the report formatAnalysisData returns for a JSON object has every
\* sub-field of every section, also of a section the payload sends without
\* some of its sub-fields.
C6_FormatFillsSubFields ==
  (IsFormat(lastEvent) /\ lastEvent.rawAnalysis.t = "object") =>
    /\ ~lastEvent.result.threw
    /\ HasAllSubFields(lastEvent.result.value)

\* C7: analyzeDataset invoked with no file selected, or with connectivity
\* offline, sets an error message and nothing else: no request is dispatched,
\* and the loading flag, the stored report, the selected file and the
\* connectivity state are as before.
C7_AnalyzeRefusedChangesOnlyTheMessage ==
  [][(lastEvent'.op = "analyzeDataset" /\ (file = Null \/ apiStatus = "offline")) =>
       /\ Truthy(error')
       /\ Requests(inflight') = Requests(inflight)
       /\ loading' = loading
       /\ datasetInfo' = datasetInfo
       /\ file' = file
       /\ apiStatus' = apiStatus]_vars

C7_Witness ==
  /\ lastEvent.op = "analyzeDataset"
  /\ apiStatus = "offline"
  /\ Truthy(file)
  /\ Truthy(datasetInfo)
  /\ error = Str(MsgApiOffline)

\* The step just taken settled the upload of an analyze action.
IsAnalyzeSettled(event) ==
  IsSettled(event, "uploadAndAnalyzeDataset") /\ event.call.caller = "analyzeDataset"

\* The report a well-formed payload carries, at top level or under `analysis`.
ReportOf(data) ==
  IF Has(data, "analysis") THEN data.props.analysis ELSE data

IsWellFormed(data) ==
  /\ data.t = "object"
  /\ HasAllFields(ReportOf(data))
  /\ HasAllSubFields(ReportOf(data))

\* C8: when the upload of an analyze action is answered with a well-formed
\* report and the user has not acted since the action started, then at its
\* completion the view holds the normalised report, connectivity is online,
\* the loading flag is false and the error message is null.
C8_AnalyzeSuccessStoresReport ==
  (/\ IsAnalyzeSettled(lastEvent)
   /\ lastEvent.outcome.kind = "response"
   /\ lastEvent.outcome.status \in 200..299
   /\ IsWellFormed(lastEvent.outcome.data)
   /\ ~lastEvent.call.userActed) =>
    /\ datasetInfo = ReportOf(lastEvent.outcome.data)
    /\ apiStatus = "online"
    /\ loading = FALSE
    /\ error = Null

C8_Witness ==
  /\ IsAnalyzeSettled(lastEvent)
  /\ lastEvent.outcome = Response(200, NestedReport)
  /\ lastEvent.call.request.file.size = 2 * 1024 * 1024
  /\ ~lastEvent.call.userActed
  /\ datasetInfo = FullReport

\* C9: when the upload of an analyze action receives no response, the 30 s
\* timeout included, then at its completion the view displays an error
\* message, holds no report, and connectivity is offline.
C9_NoResponseSetsOffline ==
  (IsAnalyzeSettled(lastEvent) /\ lastEvent.outcome.kind = "noResponse") =>
    /\ Truthy(error)
    /\ datasetInfo = Null
    /\ apiStatus = "offline"

C9_Witness ==
  /\ IsAnalyzeSettled(lastEvent)
  /\ lastEvent.outcome = NoResponse("ECONNABORTED")
  /\ error = Str(MsgNoConnect)
  /\ apiStatus = "offline"

\* C10: the file selection handler, given a file that is not a CSV or is
\* over the size limit, sets an error message and leaves the selected file,
\* the stored report, the loading flag, the connectivity state and the
\* requests in flight as they were; and the upload an analyze action starts
\* carries the file selected at that moment.
C10_RejectedSelectionKeepsState ==
  [][/\ (/\ lastEvent'.op = "handleFileUpload"
         /\ Truthy(lastEvent'.file)
         /\ \/ lastEvent'.file.name \in NonCsvNames
            \/ lastEvent'.file.size > FiftyMegabytes) =>
          /\ Truthy(error')
          /\ file' = file
          /\ datasetInfo' = datasetInfo
          /\ loading' = loading
          /\ apiStatus' = apiStatus
          /\ Requests(inflight') = Requests(inflight)
     /\ (lastEvent'.op = "analyzeDataset" /\ Len(inflight') > Len(inflight)) =>
          /\ inflight'[Len(inflight')].request.file = file
          /\ file' = file]_vars

C10_Witness ==
  /\ lastEvent.op = "handleFileUpload"
  /\ lastEvent.file = File(NameTxt, 2 * 1024 * 1024)
  /\ error = Str(MsgInvalidCsvFile)
  /\ file = File(NameUpper, FiftyMegabytes)
  /\ Truthy(datasetInfo)

\* The uploads of analyze actions awaiting their response.
UploadsInFlight ==
  {i \in DOMAIN inflight : inflight[i].caller = "analyzeDataset"}

\* C11 as stated: nothing keeps the user from starting an analyze action while
\* an upload is in flight, that is, with a file selected and connectivity not
\* offline the analyze button can be clicked also while an upload is pending.
C11_AnalyzeEnabledWhileUploading ==
  (UploadsInFlight # {} /\ Truthy(file) /\ apiStatus # "offline") =>
    AnalyzeButtonEnabled

\* C11 as amended: through the controls of the view at most one upload is in
\* flight at once, and while one is the loading flag is set and the analyze
\* button is disabled.
C11_AtMostOneUploadThroughControls ==
  /\ Cardinality(UploadsInFlight) <= 1
  /\ UploadsInFlight # {} => (loading /\ ~AnalyzeButtonEnabled)

C11_Witness ==
  /\ Cardinality(UploadsInFlight) = 1
  /\ Truthy(file)
  /\ apiStatus = "online"
  /\ ~AnalyzeButtonEnabled

\* C12: a valid selection clears the report and the error, and a report the
\* view stores was produced from the file selected at that moment: when the
\* upload of an analyze action settles and leaves a report, the file it
\* uploaded is the selected file.
C12_ReportIsOfSelectedFile ==
  /\ (/\ lastEvent.op = "handleFileUpload"
      /\ Truthy(lastEvent.file)
      /\ file = lastEvent.file) =>
       datasetInfo = Null /\ error = Null
  /\ (IsAnalyzeSettled(lastEvent) /\ Truthy(datasetInfo)) =>
       lastEvent.call.request.file = file

\* The calls in flight that hold the loading flag.
LoadingCalls ==
  {i \in DOMAIN inflight : inflight[i].caller \in {"analyzeDataset", "retryConnection"}}

\* C13: an analyze action that passes its guards sets the loading flag; the
\* flag is set only while an upload or a retry probe of the view is in
\* flight, so it is cleared when the upload settles, by a response, by a
\* failure or by a payload that cannot be normalised; and, every request
\* settling sooner or later, a set flag is cleared again.
C13_LoadingIsClearedAgain ==
  /\ [](lastEvent.op = "analyzeDataset" /\ UploadsInFlight # {} => loading)
  /\ [](loading => LoadingCalls # {})
  /\ [](IsAnalyzeSettled(lastEvent) /\ UploadsInFlight = {} => ~loading)
  /\ (loading ~> ~loading)

C13_Witness ==
  /\ IsAnalyzeSettled(lastEvent)
  /\ lastEvent.outcome = Response(200, Null)
  /\ error = Str(MsgFormatFailed)
  /\ ~loading
  /\ inflight = <<>>

\* The step just taken settled the probe started on mount.
IsStartupProbeSettled(event) ==
  IsSettled(event, "testConnection") /\ event.call.caller = "checkApiConnection"

\* C14: the connectivity state starts as unknown; the startup probe sets it
\* to online when testConnection returned true and to offline when it
\* returned false; and no step takes it from online or offline back to
\* unknown.
C14_ConnectivityNeverBackToUnknown ==
  /\ apiStatus = "unknown"
  /\ [][/\ IsStartupProbeSettled(lastEvent') =>
             /\ lastEvent'.result = Fulfilled(Bool(TRUE)) => apiStatus' = "online"
             /\ lastEvent'.result = Fulfilled(Bool(FALSE)) => apiStatus' = "offline"
        /\ apiStatus # "unknown" => apiStatus' # "unknown"]_vars

C14_Witness ==
  /\ IsStartupProbeSettled(lastEvent)
  /\ lastEvent.result = Fulfilled(Bool(FALSE))
  /\ apiStatus = "offline"
  /\ UploadsInFlight # {}

\* C15: an analyze action that fails with an error for which the server sent
\* a response, or with a validation error, leaves the connectivity state as
\* it was.
C15_ServerErrorKeepsConnectivity ==
  [][/\ (/\ IsAnalyzeSettled(lastEvent')
         /\ lastEvent'.outcome.kind = "response"
         /\ lastEvent'.result.settled = "rejected") =>
          apiStatus' = apiStatus
     /\ (/\ lastEvent'.op = "analyzeDataset"
         /\ "result" \in DOMAIN lastEvent'
         /\ IsValidationError(lastEvent'.result)) =>
          apiStatus' = apiStatus]_vars

====
